---- MODULE Spec2Model ----
(***************************************************************************)
(* Model of LinuxServiceCore (plugins/platform/linux/LinuxServiceCore.cpp): *)
(* the supervisor that keeps one server process per graphical login1       *)
(* session.  Session object paths are modelled by the integers 1..NumPaths *)
(* (QMap orders its keys; the integers keep that order), strings that the   *)
(* code inspects are sequences of one-character strings.                    *)
(***************************************************************************)
EXTENDS Integers, Sequences, FiniteSets, TLC

\* ------------------------------------------------------------------ bounds
NumPaths == 2
MaxProcs == 2
MaxQueue == 2

\* the longest process table getSessionEnvironment is applied to on its own
MaxTable == 3

\* the longest name and value of a raw environment entry parsed on its own
MaxKey == 2
MaxValue == 3

Paths == 1..NumPaths

\* ------------------------------------------------------------ QString bits
Digits == <<"0", "1", "2", "3", "4", "5", "6", "7", "8", "9">>

IsDigit(c) == \E d \in 1..10 : Digits[d] = c

DigitVal(c) == (CHOOSE d \in 1..10 : Digits[d] = c) - 1

RECURSIVE NatToStr(_)
NatToStr(n) ==
    IF n < 10 THEN <<Digits[n + 1]>>
    ELSE NatToStr(n \div 10) \o <<Digits[(n % 10) + 1]>>

\* QString::number( int ): decimal digits, a leading '-' for negatives
number(n) == IF n < 0 THEN <<"-">> \o NatToStr(0 - n) ELSE NatToStr(n)

RECURSIVE DigitsToNat(_, _)
DigitsToNat(s, acc) ==
    IF s = <<>> THEN acc
    ELSE DigitsToNat(Tail(s), acc * 10 + DigitVal(Head(s)))

\* QString::toInt(): an optional sign followed by digits only; 0 when the
\* text is no number
toInt(s) ==
    LET signed == s # <<>> /\ Head(s) \in {"-", "+"}
        body == IF signed THEN Tail(s) ELSE s
    IN  IF body = <<>> \/ \E i \in 1..Len(body) : ~IsDigit(body[i]) THEN 0
        ELSE IF signed /\ Head(s) = "-" THEN 0 - DigitsToNat(body, 0)
        ELSE DigitsToNat(body, 0)

\* QString::split( sep ): the parts between the separators, empty parts kept
RECURSIVE split(_, _)
split(s, sep) ==
    IF \A i \in 1..Len(s) : s[i] # sep THEN <<s>>
    ELSE LET i == CHOOSE k \in 1..Len(s) :
                      s[k] = sep /\ \A j \in 1..(k - 1) : s[j] # sep
         IN  <<SubSeq(s, 1, i - 1)>> \o split(SubSeq(s, i + 1, Len(s)), sep)

\* QStringList::mid( pos ): the elements from index pos (0-based) on
mid(list, pos) == SubSeq(list, pos + 1, Len(list))

\* a join that keeps the first element only
join_first(list, sep) == IF list = <<>> THEN <<>> ELSE list[1]

\* QStringList::join( sep )
RECURSIVE join(_, _)
join(list, sep) ==
    IF list = <<>> THEN <<>>
    ELSE IF Len(list) = 1 THEN list[1]
    ELSE list[1] \o <<sep>> \o join(Tail(list), sep)

\* ---------------------------------------------------- QProcessEnvironment
\* a QProcessEnvironment is a function from variable names to values
EmptyEnvironment == << >>

\* a check that never finds the environment empty
isEmpty_never(env) == FALSE

isEmpty(env) == DOMAIN env = {}

insert(env, name, val) ==
    [k \in (DOMAIN env) \cup {name} |-> IF k = name THEN val ELSE env[k]]

\* QProcessEnvironment::value( name ): the empty string when name is not set
value(env, name) == IF name \in DOMAIN env THEN env[name] ELSE <<>>

\* VeyonCore::sessionIdEnvironmentVariable()
sessionIdEnvironmentVariable ==
    <<"V", "E", "Y", "O", "N", "_", "S", "E", "S", "S", "I", "O", "N", "_", "I", "D">>

\* --------------------------------------------------- getSessionEnvironment
\* a process table entry is [tid, ppid, environ]; environ is the null
\* pointer or a sequence of raw "NAME=value" strings
NULL == [null |-> TRUE, vars |-> <<>>]

Environ(vars) == [null |-> FALSE, vars |-> vars]

\* the inner for loop: every raw entry is split at '=' and inserted
RECURSIVE insertEnviron(_, _)
insertEnviron(sessionEnv, environ) ==
    IF environ = <<>> THEN sessionEnv
    ELSE LET env == split(Head(environ), "=")
         IN  insertEnviron(insert(sessionEnv, Head(env), join(mid(env, 1), "=")),
                           Tail(environ))

\* a condition that only lets the children of the leader contribute
procMatches_direct(procInfo, sessionLeaderPid, ppids) ==
    /\ procInfo.ppid = sessionLeaderPid
    /\ procInfo.environ # NULL

\* the condition under which a scanned process contributes
procMatches(procInfo, sessionLeaderPid, ppids) ==
    /\ (procInfo.ppid = sessionLeaderPid \/ procInfo.ppid \in ppids)
    /\ procInfo.environ # NULL

\* the readproc loop from entry i on
RECURSIVE scanProcs(_, _, _, _, _)
scanProcs(table, i, sessionLeaderPid, sessionEnv, ppids) ==
    IF i > Len(table) THEN sessionEnv
    ELSE IF procMatches(table[i], sessionLeaderPid, ppids)
         THEN scanProcs(table, i + 1, sessionLeaderPid,
                        insertEnviron(sessionEnv, table[i].environ.vars),
                        ppids \cup {table[i].tid})
         ELSE scanProcs(table, i + 1, sessionLeaderPid, sessionEnv, ppids)

getSessionEnvironment(sessionLeaderPid, table) ==
    scanProcs(table, 1, sessionLeaderPid, EmptyEnvironment, {})

\* ------------------------------------------------------- SessionInspector
\* a D-Bus reply is [valid, val]; a QVariant is [null, val]
Reply(v) == [valid |-> TRUE, val |-> v]

NoSeat == [id |-> "", path |-> ""]

\* getSessionProperty: the null QVariant when the reply is invalid
getSessionProperty(reply, default) ==
    IF reply.valid = FALSE THEN [null |-> TRUE, val |-> default]
    ELSE [null |-> FALSE, val |-> reply.val]

\* a display that falls back to the default one when the query failed
getSessionDisplay_default(reply) ==
    LET display == getSessionProperty(reply, "")
    IN  IF display.null THEN ":0" ELSE display.val

\* QVariant().toString() is the empty string
getSessionDisplay(reply) ==
    LET display == getSessionProperty(reply, "")
    IN  IF display.null THEN "" ELSE display.val

getSessionLeaderPid(reply) ==
    LET leader == getSessionProperty(reply, 0)
    IN  IF leader.null THEN -1 ELSE leader.val

\* a default-constructed LoginDBusSessionSeat when nothing can be extracted
getSessionSeat(reply) ==
    LET seatArgument == getSessionProperty(reply, NoSeat)
    IN  IF seatArgument.null THEN NoSeat ELSE seatArgument.val

\* listSessions: the paths of the reply, the empty list when the call failed
listSessions(reply) == IF reply.valid THEN reply.val ELSE <<>>

\* ------------------------------------------------------------ the inputs
\* what the login manager and the process table answer during one
\* startServer call
InvalidDisplay == [valid |-> FALSE, val |-> ""]
InvalidLeader == [valid |-> FALSE, val |-> 0]
InvalidSeat == [valid |-> FALSE, val |-> NoSeat]
InvalidListing == [valid |-> FALSE, val |-> <<>>]

LeaderReply == Reply(500)
SeatReply == Reply([id |-> "seat0", path |-> "/org/freedesktop/login1/seat/seat0"])

\* child A=1, grandchild B=2, a process of another tree C=3
TableTree ==
    << [tid |-> 10, ppid |-> 500, environ |-> Environ(<< <<"A", "=", "1">> >>)],
       [tid |-> 11, ppid |-> 10, environ |-> Environ(<< <<"B", "=", "2">> >>)],
       [tid |-> 12, ppid |-> 999, environ |-> Environ(<< <<"C", "=", "3">> >>)] >>

\* no process descends from the leader
TableNone ==
    << [tid |-> 12, ppid |-> 999, environ |-> Environ(<< <<"C", "=", "3">> >>)] >>

\* the only child has no readable environment block
TableNull ==
    << [tid |-> 10, ppid |-> 500, environ |-> NULL],
       [tid |-> 11, ppid |-> 10, environ |-> Environ(<< <<"B", "=", "2">> >>)] >>

\* the session's environment already sets the session id variable
TableSid ==
    << [tid |-> 10, ppid |-> 500,
        environ |-> Environ(<< sessionIdEnvironmentVariable \o <<"=", "7">>,
                               <<"X", "=", "a", "=", "b">> >>)] >>

ProcTables == {TableTree, TableNone, TableNull, TableSid}

Input(d, l, s, t, ok) ==
    [Display |-> d, Leader |-> l, Seat |-> s, table |-> t, started |-> ok]

\* the answers differ from the plain graphical session in one respect each
Graphical == Input(Reply(":0"), LeaderReply, SeatReply, TableTree, TRUE)

SessionInputs ==
    {[Graphical EXCEPT !.Display = d] : d \in {InvalidDisplay, Reply(""), Reply(":0")}}
    \cup {[Graphical EXCEPT !.Leader = InvalidLeader],
          [Graphical EXCEPT !.Seat = InvalidSeat],
          [Graphical EXCEPT !.started = FALSE]}
    \cup {[Graphical EXCEPT !.table = t] : t \in ProcTables}

\* the orderings of the subsets of Paths: what ListSessions can return
distinct(seq) == \A i, j \in 1..Len(seq) : i # j => seq[i] # seq[j]

Listings ==
    {l \in UNION {[1..n -> Paths] : n \in 0..NumPaths} : distinct(l)}

\* ------------------------------------------------------------------ state
VARIABLES
    pc,                 \* "constructed", "eventloop" (run() is in exec()), "destroyed"
    m_multiSession,     \* VeyonCore::config().isMultiSessionServiceEnabled()
    m_serverProcesses,  \* QMap from session path to the QProcess of its server
    procs,              \* every QProcess created so far, by handle
    sessions,           \* the session ids that are open in the session registry
    queue,              \* SessionNew/SessionRemoved signals not yet dispatched
    bootstrap,          \* what ListSessions answered in run(): "pending", "listed", "failed"
    last,               \* the handler that ran last: its inputs, the state before it, its calls
    announced,          \* the listed paths whose SessionNew, waiting when run() listed,
                        \* still waits or was the signal dispatched last
    arg,                \* the argument of a function that is examined on its own
    result              \* what that function returned

vars == <<pc, m_multiSession, m_serverProcesses, procs, sessions, queue, bootstrap, last,
          announced, arg, result>>

\* the variables of the functions examined on their own
pure == <<arg, result>>

NoArg == [kind |-> "none"]
NoResult == [done |-> FALSE]

\* one outbound call or map update made by a handler
Event(ev, path, proc, id, display, seat) ==
    [ev |-> ev, path |-> path, proc |-> proc, id |-> id, display |-> display, seat |-> seat]

CallEvent(sessionPath) == Event("startServer", sessionPath, 0, -1, "", "")
OpenEvent(sessionPath, display, seat, id) == Event("openSession", sessionPath, 0, id, display, seat)
StartEvent(sessionPath, process) == Event("start", sessionPath, process, -1, "", "")
InsertEvent(sessionPath, process) == Event("insert", sessionPath, process, -1, "", "")
TerminateEvent(sessionPath, process) == Event("terminate", sessionPath, process, -1, "", "")
CloseEvent(sessionPath, id) == Event("closeSession", sessionPath, 0, id, "", "")
DeleteEvent(sessionPath, process) == Event("delete", sessionPath, process, -1, "", "")
RemoveEvent(sessionPath) == Event("remove", sessionPath, 0, -1, "", "")

\* the part of the state the handlers work on, and the calls made so far
Current ==
    [serverProcesses |-> m_serverProcesses, procs |-> procs, sessions |-> sessions,
     trace |-> <<>>]

\* ---------------------------------------------------------- SessionRegistry
\* openSession: a fresh id, the smallest one that is not open
freeSessionId(open) ==
    CHOOSE id \in 0..Cardinality(open) :
        id \notin open /\ \A j \in 0..(id - 1) : j \in open

openSession(st, sessionPath, display, seat) ==
    LET id == freeSessionId(st.sessions)
    IN  [st EXCEPT !.sessions = @ \cup {id},
                   !.trace = Append(@, OpenEvent(sessionPath, display, seat, id))]

closeSession(st, sessionPath, id) ==
    [st EXCEPT !.sessions = @ \ {id},
               !.trace = Append(@, CloseEvent(sessionPath, id))]

\* --------------------------------------------------------------- startServer
\* no gate on the display
isGraphical_always(sessionDisplay) == TRUE

\* the gate on the display: no server for non-graphical sessions
isGraphical(sessionDisplay) == sessionDisplay # ""

\* an id that is set only when the session's environment does not set one
serverEnvironment_keep(sessionEnvironment, sessionId) ==
    IF m_multiSession /\ sessionIdEnvironmentVariable \notin DOMAIN sessionEnvironment
    THEN insert(sessionEnvironment, sessionIdEnvironmentVariable, number(sessionId))
    ELSE sessionEnvironment

\* the id is set whether or not multi-session mode is enabled
serverEnvironment_always(sessionEnvironment, sessionId) ==
    insert(sessionEnvironment, sessionIdEnvironmentVariable, number(sessionId))

\* the environment the server is started with
serverEnvironment(sessionEnvironment, sessionId) ==
    IF m_multiSession
    THEN insert(sessionEnvironment, sessionIdEnvironmentVariable, number(sessionId))
    ELSE sessionEnvironment

\* m_serverProcesses[sessionPath] = process
assign(map, sessionPath, process) ==
    [k \in (DOMAIN map) \cup {sessionPath} |->
        IF k = sessionPath THEN process ELSE map[k]]

\* the entry is recorded only when the process could be started
startServer_onlyStarted(st, sessionPath, in) ==
    LET called == [st EXCEPT !.trace = Append(@, CallEvent(sessionPath))]
        sessionDisplay == getSessionDisplay(in.Display)
        sessionEnvironment == getSessionEnvironment(getSessionLeaderPid(in.Leader), in.table)
        opened == IF m_multiSession
                  THEN openSession(called, sessionPath, sessionDisplay,
                                   getSessionSeat(in.Seat).path)
                  ELSE called
        process == Len(st.procs) + 1
        started == [opened EXCEPT
                      !.procs = Append(@,
                          [sessionPath |-> sessionPath,
                           environment |-> serverEnvironment(sessionEnvironment,
                                                             freeSessionId(st.sessions)),
                           running |-> in.started,
                           terminated |-> 0,
                           deleted |-> FALSE]),
                      !.trace = Append(@, StartEvent(sessionPath, process))]
    IN  IF ~isGraphical(sessionDisplay) THEN called
        ELSE IF isEmpty(sessionEnvironment) THEN called
        ELSE IF ~in.started THEN started
        ELSE [started EXCEPT
                !.serverProcesses = assign(@, sessionPath, process),
                !.trace = Append(@, InsertEvent(sessionPath, process))]

startServer(st, sessionPath, in) ==
    LET called == [st EXCEPT !.trace = Append(@, CallEvent(sessionPath))]
        sessionDisplay == getSessionDisplay(in.Display)
        sessionLeader == getSessionLeaderPid(in.Leader)
        sessionEnvironment == getSessionEnvironment(sessionLeader, in.table)
        seat == getSessionSeat(in.Seat)
        opened == IF m_multiSession
                  THEN openSession(called, sessionPath, sessionDisplay, seat.path)
                  ELSE called
        process == Len(st.procs) + 1
    IN  IF ~isGraphical(sessionDisplay) THEN called
        ELSE IF isEmpty(sessionEnvironment) THEN called
        ELSE [opened EXCEPT
                !.procs = Append(@,
                    [sessionPath |-> sessionPath,
                     environment |-> serverEnvironment(sessionEnvironment,
                                                       freeSessionId(st.sessions)),
                     running |-> in.started,
                     terminated |-> 0,
                     deleted |-> FALSE]),
                !.serverProcesses = assign(@, sessionPath, process),
                !.trace = @ \o <<StartEvent(sessionPath, process),
                                 InsertEvent(sessionPath, process)>>]

\* ---------------------------------------------------------------- stopServer
\* m_serverProcesses.remove( sessionPath )
remove(map, sessionPath) == [k \in (DOMAIN map) \ {sessionPath} |-> map[k]]

\* the session is closed first and the process terminated afterwards
stopServer_closeFirst(st, sessionPath) ==
    LET process == st.serverProcesses[sessionPath]
        closed == IF m_multiSession
                  THEN closeSession(st, sessionPath,
                           toInt(value(st.procs[process].environment,
                                       sessionIdEnvironmentVariable)))
                  ELSE st
    IN  [closed EXCEPT
           !.procs[process].terminated = @ + 1,
           !.procs[process].deleted = TRUE,
           !.procs[process].running = FALSE,
           !.serverProcesses = [k \in (DOMAIN @) \ {sessionPath} |-> @[k]],
           !.trace = @ \o <<TerminateEvent(sessionPath, process),
                            DeleteEvent(sessionPath, process),
                            RemoveEvent(sessionPath)>>]

\* stopServer( sessionPath )
stopServer(st, sessionPath) ==
    LET process == st.serverProcesses[sessionPath]
        terminated == [st EXCEPT
                         !.procs[process].terminated = @ + 1,
                         !.trace = Append(@, TerminateEvent(sessionPath, process))]
        closed == IF m_multiSession
                  THEN closeSession(terminated, sessionPath,
                           toInt(value(st.procs[process].environment,
                                       sessionIdEnvironmentVariable)))
                  ELSE terminated
    IN  [closed EXCEPT
           !.procs[process].deleted = TRUE,
           !.procs[process].running = FALSE,
           !.serverProcesses = remove(@, sessionPath),
           !.trace = @ \o <<DeleteEvent(sessionPath, process), RemoveEvent(sessionPath)>>]

\* a slot that stops some server when the path has none
stopServerSlot_any(st, sessionPath) ==
    IF sessionPath \in DOMAIN st.serverProcesses THEN stopServer(st, sessionPath)
    ELSE IF DOMAIN st.serverProcesses # {}
         THEN stopServer(st, CHOOSE k \in DOMAIN st.serverProcesses : TRUE)
         ELSE st

\* the slot stopServer( login1SessionId, sessionObjectPath )
stopServerSlot(st, sessionPath) ==
    IF sessionPath \in DOMAIN st.serverProcesses
    THEN stopServer(st, sessionPath)
    ELSE st

\* QMap::firstKey(): the smallest key
firstKey(map) == CHOOSE k \in DOMAIN map : \A j \in DOMAIN map : k <= j

\* an if where the while belongs: only the first server is stopped
stopAllServers_once(st) ==
    IF DOMAIN st.serverProcesses = {} THEN st
    ELSE stopServer(st, firstKey(st.serverProcesses))

\* a loop that stops while more than one server is left
RECURSIVE stopAllServers_keepLast(_)
stopAllServers_keepLast(st) ==
    IF Cardinality(DOMAIN st.serverProcesses) <= 1 THEN st
    ELSE stopAllServers_keepLast(stopServer(st, firstKey(st.serverProcesses)))

RECURSIVE stopAllServers(_)
stopAllServers(st) ==
    IF DOMAIN st.serverProcesses = {} THEN st
    ELSE stopAllServers(stopServer(st, firstKey(st.serverProcesses)))

\* ----------------------------------------------------------------------- run
\* a loop that stops one session short of the end of the list
RECURSIVE startListed_short(_, _, _, _)
startListed_short(st, listed, ins, i) ==
    IF i >= Len(listed) THEN st
    ELSE startListed_short(startServer(st, listed[i], ins[listed[i]]), listed, ins, i + 1)

\* a loop that asks again when a listed session got no server
RECURSIVE startListed_retry(_, _, _, _)
startListed_retry(st, listed, ins, i) ==
    IF i > Len(listed) THEN st
    ELSE LET first == startServer(st, listed[i], ins[listed[i]])
             again == IF listed[i] \in DOMAIN first.serverProcesses THEN first
                      ELSE startServer(first, listed[i], Graphical)
         IN  startListed_retry(again, listed, ins, i + 1)

\* the for loop of run() from the i-th listed session on; ins gives the
\* answers obtained while each session is handled
RECURSIVE startListed(_, _, _, _)
startListed(st, listed, ins, i) ==
    IF i > Len(listed) THEN st
    ELSE startListed(startServer(st, listed[i], ins[listed[i]]), listed, ins, i + 1)

run(st, listing, ins) == startListed(st, listSessions(listing), ins, 1)

\* ---------------------------------------------------------------- destructor
\* ~QObject deletes the children that are left: every QProcess was created
\* with the service core as its parent
RECURSIVE deleteChildren(_, _)
deleteChildren(st, process) ==
    IF process > Len(st.procs) THEN st
    ELSE IF st.procs[process].deleted THEN deleteChildren(st, process + 1)
    ELSE deleteChildren(
            [st EXCEPT !.procs[process].deleted = TRUE,
                       !.procs[process].running = FALSE,
                       !.trace = Append(@, DeleteEvent(st.procs[process].sessionPath,
                                                       process))],
            process + 1)

destroy(st) == deleteChildren(stopAllServers(st), 1)

\* ------------------------------------------------------------------- actions
Signals == [signal : {"SessionNew", "SessionRemoved"}, path : Paths]

NoInputs == << >>

Pre == [serverProcesses |-> m_serverProcesses, procs |-> procs, sessions |-> sessions]

Handled(op, sessionPath, listing, ins, st) ==
    [op |-> op, path |-> sessionPath, listing |-> listing, ins |-> ins,
     pre |-> Pre, trace |-> st.trace]

Commit(st) ==
    /\ m_serverProcesses' = st.serverProcesses
    /\ procs' = st.procs
    /\ sessions' = st.sessions

Range(seq) == {seq[i] : i \in 1..Len(seq)}

Init ==
    /\ pc = "constructed"
    /\ m_multiSession \in BOOLEAN
    /\ m_serverProcesses = << >>
    /\ procs = << >>
    /\ sessions = {}
    /\ queue = << >>
    /\ bootstrap = "pending"
    /\ announced = {}
    /\ arg = NoArg
    /\ result = NoResult
    /\ last = [op |-> "constructor", path |-> 0, listing |-> InvalidListing,
               ins |-> NoInputs,
               pre |-> [serverProcesses |-> << >>, procs |-> << >>, sessions |-> {}],
               trace |-> << >>]

\* the login manager emits a signal; it waits in the event queue of the
\* thread until the event loop dispatches it
Emit ==
    /\ pc \in {"constructed", "eventloop"}
    /\ Len(queue) < MaxQueue
    /\ \E n \in Signals : queue' = Append(queue, n)
    /\ UNCHANGED <<pc, m_multiSession, m_serverProcesses, procs, sessions, bootstrap, last,
                   announced, pure>>

\* run() gives up when the sessions could not be listed
afterBootstrap_abort(listing) == IF listing.valid THEN "eventloop" ELSE "constructed"

\* where run() is once the for loop is done
afterBootstrap(listing) == "eventloop"

\* every waiting signal gets through while a call waits for its reply
dispatchedInCall_all(pending) == pending

\* the signals that are dispatched while a D-Bus call of run() waits for its
\* reply: call() blocks without running an event loop, so none is
dispatchedInCall(pending) == << >>

\* the slots run for the signals that a blocking call let through
RECURSIVE dispatch(_, _)
dispatch(st, pending) ==
    IF pending = << >> THEN st
    ELSE dispatch(IF Head(pending).signal = "SessionNew"
                  THEN startServer(st, Head(pending).path, Graphical)
                  ELSE stopServerSlot(st, Head(pending).path),
                  Tail(pending))

\* the listed paths that a waiting SessionNew announces as well
announcedBy(listed, pending) ==
    {sessionPath \in Range(listed) :
        /\ \E i \in DOMAIN pending :
              pending[i] = [signal |-> "SessionNew", path |-> sessionPath]
        /\ \A i \in DOMAIN pending : pending[i].path = sessionPath
              => pending[i].signal = "SessionNew"}

\* what is left of them once a signal was dispatched
stillAnnounced(paths, dispatched, waiting) ==
    {sessionPath \in paths :
        \/ dispatched = [signal |-> "SessionNew", path |-> sessionPath]
        \/ \E i \in DOMAIN waiting :
              waiting[i] = [signal |-> "SessionNew", path |-> sessionPath]}

Run ==
    /\ pc = "constructed"
    /\ \E listing \in {InvalidListing} \cup {Reply(l) : l \in Listings} :
         \E ins \in [Range(listSessions(listing)) -> SessionInputs] :
            LET early == dispatchedInCall(queue)
                st == run(dispatch(Current, early), listing, ins)
            IN  /\ Len(st.procs) <= MaxProcs
                /\ Commit(st)
                /\ queue' = SubSeq(queue, Len(early) + 1, Len(queue))
                /\ pc' = afterBootstrap(listing)
                /\ bootstrap' = IF listing.valid THEN "listed" ELSE "failed"
                /\ announced' = announcedBy(listSessions(listing), queue')
                /\ last' = Handled("run", 0, listing, ins, st)
    /\ UNCHANGED <<m_multiSession, pure>>

DeliverSessionNew ==
    /\ pc = "eventloop"
    /\ queue # << >>
    /\ Head(queue).signal = "SessionNew"
    /\ \E in \in SessionInputs :
         LET sessionPath == Head(queue).path
             st == startServer(Current, sessionPath, in)
         IN  /\ Len(st.procs) <= MaxProcs
             /\ Commit(st)
             /\ last' = Handled("startServer", sessionPath, InvalidListing,
                                [p \in {sessionPath} |-> in], st)
    /\ queue' = Tail(queue)
    /\ announced' = stillAnnounced(announced, Head(queue), Tail(queue))
    /\ UNCHANGED <<pc, m_multiSession, bootstrap, pure>>

DeliverSessionRemoved ==
    /\ pc = "eventloop"
    /\ queue # << >>
    /\ Head(queue).signal = "SessionRemoved"
    /\ LET sessionPath == Head(queue).path
           st == stopServerSlot(Current, sessionPath)
       IN  /\ Commit(st)
           /\ last' = Handled("stopServer", sessionPath, InvalidListing, NoInputs, st)
    /\ queue' = Tail(queue)
    /\ announced' = stillAnnounced(announced, Head(queue), Tail(queue))
    /\ UNCHANGED <<pc, m_multiSession, bootstrap, pure>>

\* stopAllServers is called on its own, before the object is destroyed
StopAllServers ==
    /\ pc \in {"constructed", "eventloop"}
    /\ LET st == stopAllServers(Current)
       IN  /\ Commit(st)
           /\ last' = Handled("stopAllServers", 0, InvalidListing, NoInputs, st)
    /\ UNCHANGED <<pc, m_multiSession, queue, bootstrap, announced, pure>>

Destructor ==
    /\ pc \in {"constructed", "eventloop"}
    /\ LET st == destroy(Current)
       IN  /\ Commit(st)
           /\ last' = Handled("destructor", 0, InvalidListing, NoInputs, st)
    /\ pc' = "destroyed"
    /\ UNCHANGED <<m_multiSession, queue, bootstrap, announced, pure>>

Next ==
    \/ Emit
    \/ Run
    \/ DeliverSessionNew
    \/ DeliverSessionRemoved
    \/ StopAllServers
    \/ Destructor

Spec == Init /\ [][Next]_vars

\* ------------------------------------------- the functions on their own
\* getSessionEnvironment and the parsing of one raw entry, applied to
\* arguments drawn from bounded sets
SeqsUpTo(S, n) == UNION {[1..k -> S] : k \in 0..n}

Tids == {10, 11}
Ppids == {500, 10, 11}
LeaderPids == {500, -1}
Environs ==
    {NULL,
     Environ(<< <<"A", "=", "1">> >>),
     Environ(<< <<"A", "=", "2">>, <<"B", "=", "2">> >>)}

Tables ==
    SeqsUpTo([tid : Tids, ppid : Ppids, environ : Environs], MaxTable) \cup ProcTables

KeyChars == {"F", "O"}
ValueChars == {"b", "="}
FooBarBaz == <<"F", "O", "O", "=", "b", "a", "r", "=", "b", "a", "z">>

RawEntries ==
    {k \o <<"=">> \o v : k \in SeqsUpTo(KeyChars, MaxKey), v \in SeqsUpTo(ValueChars, MaxValue)}
       \cup {FooBarBaz}

InitPure ==
    /\ pc = "constructed"
    /\ m_multiSession = FALSE
    /\ m_serverProcesses = << >>
    /\ procs = << >>
    /\ sessions = {}
    /\ queue = << >>
    /\ bootstrap = "pending"
    /\ announced = {}
    /\ last = [op |-> "constructor", path |-> 0, listing |-> InvalidListing,
               ins |-> NoInputs,
               pre |-> [serverProcesses |-> << >>, procs |-> << >>, sessions |-> {}],
               trace |-> << >>]
    /\ \/ \E sessionLeaderPid \in LeaderPids, table \in Tables :
             arg = [kind |-> "getSessionEnvironment",
                    sessionLeaderPid |-> sessionLeaderPid, table |-> table]
       \/ \E raw \in RawEntries : arg = [kind |-> "environ", raw |-> raw]
    /\ result = NoResult

\* one call of getSessionEnvironment
GetSessionEnvironment ==
    /\ arg.kind = "getSessionEnvironment"
    /\ ~result.done
    /\ result' = [done |-> TRUE,
                  val |-> getSessionEnvironment(arg.sessionLeaderPid, arg.table)]
    /\ UNCHANGED <<pc, m_multiSession, m_serverProcesses, procs, sessions, queue,
                   bootstrap, last, announced, arg>>

\* the inner loop over an environment block that holds one raw entry
InsertEnviron ==
    /\ arg.kind = "environ"
    /\ ~result.done
    /\ result' = [done |-> TRUE, val |-> insertEnviron(EmptyEnvironment, <<arg.raw>>)]
    /\ UNCHANGED <<pc, m_multiSession, m_serverProcesses, procs, sessions, queue,
                   bootstrap, last, announced, arg>>

NextPure ==
    \/ GetSessionEnvironment
    \/ InsertEnviron

SpecPure == InitPure /\ [][NextPure]_vars

\* ------------------------------------------------------------ vocabulary
\* the workers that were started and have not been sent a termination request
Live == {h \in DOMAIN procs : procs[h].terminated = 0}

LiveFor(sessionPath) == {h \in Live : procs[h].sessionPath = sessionPath}

\* the display as the session reports it is empty, or could not be queried
DisplayEmpty(in) == in.Display.valid = FALSE \/ in.Display.val = ""

\* the environment resolved from the leader pid of the session
Resolved(in) ==
    getSessionEnvironment(IF in.Leader.valid THEN in.Leader.val ELSE -1, in.table)

Eligible(in) == ~DisplayEmpty(in) /\ DOMAIN Resolved(in) # {}

\* the calls of one kind in the trace of the last handler
Calls(ev) == {i \in DOMAIN last.trace : last.trace[i].ev = ev}

Unchanged ==
    /\ m_serverProcesses = last.pre.serverProcesses
    /\ procs = last.pre.procs
    /\ sessions = last.pre.sessions

\* ---------------------------------------------------------------------- C1
\* C1: in every reachable state every session path has at most one live
\* worker (started, no termination request sent yet), whatever sequence of
\* session-added and session-removed notifications was handled, repeated
\* session-added notifications for one path included.
C1_OneLiveWorkerPerPath ==
    \A sessionPath \in Paths : Cardinality(LiveFor(sessionPath)) <= 1

\* ---------------------------------------------------------------------- C2
\* C2: when session-added is handled for a session whose display is empty,
\* startServer creates no map entry and starts no process: the map, the
\* processes and the registry are as before; a listed session with an empty
\* display gets no entry and no call during the bootstrap scan either.
C2_EmptyDisplayNoWorker ==
    /\ (last.op = "startServer" /\ DisplayEmpty(last.ins[last.path]))
          => (Unchanged /\ last.trace = <<CallEvent(last.path)>>)
    /\ last.op = "run" =>
          \A sessionPath \in DOMAIN last.ins :
             DisplayEmpty(last.ins[sessionPath]) =>
                /\ sessionPath \notin DOMAIN m_serverProcesses
                /\ \A i \in DOMAIN last.trace :
                      last.trace[i].path = sessionPath
                         => last.trace[i] = CallEvent(sessionPath)

C2_Witness ==
    /\ last.op = "startServer"
    /\ DisplayEmpty(last.ins[last.path])
    /\ last.ins[last.path].Display.valid
    /\ DOMAIN last.pre.serverProcesses # {}

\* ---------------------------------------------------------------------- C3
\* C3: when the display is non-empty and the environment resolved from the
\* leader pid is the empty mapping, startServer creates no map entry, starts
\* no process and does not call SessionRegistry.open.
C3_EmptyEnvironmentNoWorker ==
    /\ (/\ last.op = "startServer"
        /\ ~DisplayEmpty(last.ins[last.path])
        /\ DOMAIN Resolved(last.ins[last.path]) = {})
          => (Unchanged /\ Calls("openSession") = {} /\ Calls("start") = {})
    /\ last.op = "run" =>
          \A sessionPath \in DOMAIN last.ins :
             (/\ ~DisplayEmpty(last.ins[sessionPath])
              /\ DOMAIN Resolved(last.ins[sessionPath]) = {}) =>
                /\ sessionPath \notin DOMAIN m_serverProcesses
                /\ \A i \in DOMAIN last.trace :
                      last.trace[i].path = sessionPath
                         => last.trace[i] = CallEvent(sessionPath)

C3_Witness ==
    /\ last.op = "startServer"
    /\ m_multiSession
    /\ ~DisplayEmpty(last.ins[last.path])
    /\ last.ins[last.path].Leader.valid
    /\ DOMAIN Resolved(last.ins[last.path]) = {}
    /\ DOMAIN last.pre.serverProcesses # {}

CallOrder ==
    LET calls == SelectSeq(last.trace, LAMBDA e : e.ev = "startServer")
    IN  [i \in DOMAIN calls |-> calls[i].path]

\* every call of the trace belongs to the session whose handling began last
Uninterleaved ==
    \A i \in DOMAIN last.trace :
       \E j \in 1..i :
          /\ last.trace[j] = CallEvent(last.trace[i].path)
          /\ \A k \in (j + 1)..i : last.trace[k].ev # "startServer"

\* C5: after bootstrap over a successful listing of distinct paths, the keys
\* of the map are exactly the listed paths with a non-empty display and a
\* non-empty resolved environment, and the sessions were handled in listing
\* order, each one to completion before the next.
C5_BootstrapStartsEligible ==
    (last.op = "run" /\ last.listing.valid) =>
       /\ DOMAIN m_serverProcesses =
             {sessionPath \in Range(last.listing.val) : Eligible(last.ins[sessionPath])}
       /\ CallOrder = last.listing.val
       /\ Uninterleaved

C5_Witness ==
    /\ last.op = "run"
    /\ last.listing.valid
    /\ Len(last.listing.val) = 2
    /\ \E a, b \in Range(last.listing.val) :
          /\ last.ins[a].Display = Reply("")
          /\ Eligible(last.ins[b])
          /\ DOMAIN m_serverProcesses = {b}

\* ---------------------------------------------------------------------- C6
\* C6: session-removed for a path without a map entry is a no-op: the map is
\* unchanged, no process is sent a termination request and
\* SessionRegistry.close is not called.
C6_RemoveUnknownIsNoOp ==
    (last.op = "stopServer" /\ last.path \notin DOMAIN last.pre.serverProcesses)
       => (Unchanged /\ last.trace = << >>)

C6_Witness ==
    /\ last.op = "stopServer"
    /\ last.path \notin DOMAIN last.pre.serverProcesses
    /\ DOMAIN last.pre.serverProcesses # {}
    /\ m_multiSession

\* ---------------------------------------------------------------------- C7
\* the process of the removed entry and the id its environment records
StoppedProcess == last.pre.serverProcesses[last.path]

RecordedId == last.pre.procs[StoppedProcess].environment[sessionIdEnvironmentVariable]

\* C7: session-removed for a path with a map entry makes, in this order, one
\* termination request to the process of the entry, in multi-session mode one
\* SessionRegistry.close call whose argument is the session id recorded in the
\* environment of that process, the release of the handle and the removal of
\* the entry; afterwards the path has no entry and the other entries are as
\* before.
C7_RemoveStopsInOrder ==
    (last.op = "stopServer" /\ last.path \in DOMAIN last.pre.serverProcesses) =>
       /\ Len(last.trace) = IF m_multiSession THEN 4 ELSE 3
       /\ last.trace[1] = TerminateEvent(last.path, StoppedProcess)
       /\ m_multiSession =>
             /\ last.trace[2].ev = "closeSession"
             /\ number(last.trace[2].id) = RecordedId
       /\ last.trace[Len(last.trace) - 1] = DeleteEvent(last.path, StoppedProcess)
       /\ last.trace[Len(last.trace)] = RemoveEvent(last.path)
       /\ procs[StoppedProcess].terminated = last.pre.procs[StoppedProcess].terminated + 1
       /\ procs[StoppedProcess].deleted
       /\ DOMAIN m_serverProcesses = (DOMAIN last.pre.serverProcesses) \ {last.path}
       /\ \A k \in DOMAIN m_serverProcesses :
             /\ m_serverProcesses[k] = last.pre.serverProcesses[k]
             /\ procs[m_serverProcesses[k]] = last.pre.procs[m_serverProcesses[k]]

C7_Witness ==
    /\ last.op = "stopServer"
    /\ last.path \in DOMAIN last.pre.serverProcesses
    /\ m_multiSession
    /\ DOMAIN m_serverProcesses # {}
    /\ last.trace[2].id > 0

\* ---------------------------------------------------------------------- C8
\* the termination requests and removals of one entry
TerminatesOf(process) ==
    {i \in Calls("terminate") : last.trace[i].proc = process}

RemovesOf(sessionPath) ==
    {i \in Calls("remove") : last.trace[i].path = sessionPath}

\* C8: shutdown started with n map entries comes to an end, removes all n
\* entries, sends exactly one termination request to the process of each
\* entry before that entry is removed, and leaves the map empty.
C8_ShutdownDrainsMap ==
    last.op = "destructor" =>
       /\ m_serverProcesses = << >>
       /\ Cardinality(Calls("remove")) = Cardinality(DOMAIN last.pre.serverProcesses)
       /\ Cardinality(Calls("terminate")) = Cardinality(DOMAIN last.pre.serverProcesses)
       /\ \A sessionPath \in DOMAIN last.pre.serverProcesses :
             LET process == last.pre.serverProcesses[sessionPath]
             IN  /\ Cardinality(TerminatesOf(process)) = 1
                 /\ Cardinality(RemovesOf(sessionPath)) = 1
                 /\ \A i \in TerminatesOf(process) :
                       \A j \in RemovesOf(sessionPath) : i < j
                 /\ procs[process].terminated = last.pre.procs[process].terminated + 1

C8_Witness ==
    /\ last.op = "destructor"
    /\ Cardinality(DOMAIN last.pre.serverProcesses) = 2
    /\ m_serverProcesses = << >>

\* ---------------------------------------------------------------------- C9
\* C9: a worker is created only for eligible sessions, and every worker that
\* startServer has started is sent a termination request and released when
\* session-removed is handled for its path or, at the latest, at shutdown:
\* once stopAllServers has completed no started worker is left without a
\* termination request, whatever notifications came before.
C9_EveryWorkerTerminated ==
    /\ last.op \in {"startServer", "run"} =>
          \A i \in Calls("start") : Eligible(last.ins[last.trace[i].path])
    /\ last.op = "destructor" =>
          \A process \in DOMAIN procs :
             procs[process].terminated >= 1 /\ procs[process].deleted

\* --------------------------------------------------------------------- C10
\* the seat path startServer obtains
SeatPath(in) == IF in.Seat.valid THEN in.Seat.val.path ELSE ""

\* C10: in multi-session mode, when session-added is handled for an eligible
\* session, SessionRegistry.open is called with the path, the display and the
\* seat path of the session, and the environment the worker is started with
\* holds the session id variable with the decimal string of the id that this
\* call returned, whatever the resolved environment holds for that variable.
C10_EnvironmentCarriesOpenedId ==
    (m_multiSession /\ last.op \in {"startServer", "run"}) =>
       \A sessionPath \in DOMAIN last.ins :
          Eligible(last.ins[sessionPath]) =>
             \E i \in Calls("openSession") :
                /\ last.trace[i].path = sessionPath
                /\ last.trace[i].display = last.ins[sessionPath].Display.val
                /\ last.trace[i].seat = SeatPath(last.ins[sessionPath])
                /\ last.trace[i + 1].ev = "start"
                /\ last.trace[i + 1].path = sessionPath
                /\ sessionIdEnvironmentVariable \in
                      DOMAIN procs[last.trace[i + 1].proc].environment
                /\ procs[last.trace[i + 1].proc].environment[sessionIdEnvironmentVariable]
                      = number(last.trace[i].id)

C10_Witness ==
    /\ m_multiSession
    /\ last.op = "startServer"
    /\ Eligible(last.ins[last.path])
    /\ sessionIdEnvironmentVariable \in DOMAIN Resolved(last.ins[last.path])
    /\ last.pre.sessions # {}
    /\ m_serverProcesses[last.path] \in DOMAIN procs
    /\ procs[m_serverProcesses[last.path]].environment[sessionIdEnvironmentVariable]
          # Resolved(last.ins[last.path])[sessionIdEnvironmentVariable]

\* --------------------------------------------------------------------- C11
\* the ids that are open when the i-th call of the last handler is made
OpenBefore(i) ==
    (last.pre.sessions
        \cup {last.trace[j].id : j \in {k \in Calls("openSession") : k < i}})
    \ {last.trace[j].id : j \in {k \in Calls("closeSession") : k < i}}

\* C11: in multi-session mode no session id is leaked: whatever session-added
\* and session-removed notifications were handled, once stopAllServers has
\* completed every id that SessionRegistry.open returned has been passed to
\* SessionRegistry.close, and close is only ever called with an id that is
\* open at that moment (so no id is closed twice).
C11_NoSessionIdLeaked ==
    m_multiSession =>
       /\ last.op \in {"stopAllServers", "destructor"} => sessions = {}
       /\ \A i \in Calls("closeSession") : last.trace[i].id \in OpenBefore(i)

\* --------------------------------------------------------------------- C12
\* the slot that a signal is connected to
SlotOf(n) == IF n.signal = "SessionNew" THEN "startServer" ELSE "stopServer"

\* C12: no session-added or session-removed notification is handled before
\* run() has gone through the whole initial listing: the queue of waiting
\* notifications only changes by a new one arriving at its end or, once
\* bootstrap is over and the event loop runs, by the slot of its first one
\* being run, one notification per step and in the order of arrival.
C12_NotificationsAfterBootstrap ==
    [][queue' # queue =>
          \/ \E n \in Signals : queue' = Append(queue, n) /\ last' = last
          \/ /\ pc = "eventloop"
             /\ bootstrap # "pending"
             /\ queue # << >>
             /\ queue' = Tail(queue)
             /\ last'.op = SlotOf(Head(queue))
             /\ last'.path = Head(queue).path]_vars

C12_Witness ==
    /\ last.op = "startServer"
    /\ last.path \in announced
    /\ bootstrap = "listed"
    /\ queue # << >>

\* --------------------------------------------------------------------- C13
\* C13: no session is started twice across bootstrap and the live
\* notifications: a session that is in the listing of run() and is also
\* announced by a SessionNew that was waiting at that time has one worker
\* process started for it, not two.
C13_NoDoubleStart ==
    \A sessionPath \in announced : Cardinality(LiveFor(sessionPath)) <= 1

\* --------------------------------------------------------------------- C14
\* the entries a handler tears down: the one of its path, or all of them
TornDown ==
    IF last.op = "stopServer" THEN {last.path} \cap DOMAIN last.pre.serverProcesses
    ELSE IF last.op \in {"stopAllServers", "destructor"} THEN DOMAIN last.pre.serverProcesses
    ELSE {}

\* C14: when the worker executable cannot be started for an eligible session,
\* the map entry is recorded all the same, against the handle that is not
\* running; a later session-removed or shutdown sends that handle its
\* termination request like any other, goes on and removes the entry.
C14_FailedLaunchKeepsEntry ==
    /\ (/\ last.op = "startServer"
        /\ Eligible(last.ins[last.path])
        /\ ~last.ins[last.path].started) =>
          /\ last.path \in DOMAIN m_serverProcesses
          /\ m_serverProcesses[last.path] = Len(last.pre.procs) + 1
          /\ ~procs[m_serverProcesses[last.path]].running
    /\ \A sessionPath \in TornDown :
          LET process == last.pre.serverProcesses[sessionPath]
          IN  ~last.pre.procs[process].running =>
                 /\ \E i \in Calls("terminate") : last.trace[i].proc = process
                 /\ \E i \in Calls("remove") : last.trace[i].path = sessionPath
                 /\ procs[process].terminated = 1
                 /\ procs[process].deleted
                 /\ sessionPath \notin DOMAIN m_serverProcesses

C14_Witness ==
    /\ last.op = "stopServer"
    /\ TornDown = {last.path}
    /\ ~last.pre.procs[last.pre.serverProcesses[last.path]].running
    /\ DOMAIN m_serverProcesses # {}

\* --------------------------------------------------------------------- C15
\* C15: eligibility is not retried: an entry for a path only ever appears in
\* the step in which session-added (or the bootstrap scan) is handled for that
\* very path with a non-empty display and a non-empty resolved environment; a
\* session that was not eligible then gets no entry later on by itself.
C15_NoRetry ==
    [][\A sessionPath \in Paths :
          (sessionPath \notin DOMAIN m_serverProcesses
           /\ sessionPath \in DOMAIN m_serverProcesses') =>
             /\ last'.op \in {"startServer", "run"}
             /\ sessionPath \in DOMAIN last'.ins
             /\ Eligible(last'.ins[sessionPath])]_vars

C15_Witness ==
    /\ last.op = "startServer"
    /\ ~DisplayEmpty(last.ins[last.path])
    /\ ~Eligible(last.ins[last.path])
    /\ last.path \notin DOMAIN m_serverProcesses
    /\ queue # << >>
    /\ Head(queue).path # last.path

\* --------------------------------------------------------------------- C16
\* C16: with multi-session mode disabled no handler calls SessionRegistry.open
\* or SessionRegistry.close, no session id is open, and every worker is
\* started with exactly the resolved environment: the session id variable is
\* not injected.
C16_SingleSessionNoRegistry ==
    ~m_multiSession =>
       /\ Calls("openSession") = {}
       /\ Calls("closeSession") = {}
       /\ sessions = {}
       /\ \A i \in Calls("start") :
             procs[last.trace[i].proc].environment
                = Resolved(last.ins[last.trace[i].path])

C16_Witness ==
    /\ ~m_multiSession
    /\ last.op = "startServer"
    /\ Calls("start") # {}
    /\ DOMAIN last.pre.serverProcesses # {}
    /\ sessionIdEnvironmentVariable \notin
          DOMAIN procs[m_serverProcesses[last.path]].environment

\* --------------------------------------------------------------------- C17
\* the calls of some kinds in a trace
CallsIn(trace, evs) == {i \in DOMAIN trace : trace[i].ev \in evs}

\* C17: shutdown is idempotent: when stopAllServers runs again right after
\* stopAllServers (on its own or from the destructor), the second run sends no
\* termination request, calls no SessionRegistry.close and leaves the map
\* empty; and every run of it ends with the map empty, also when processes of
\* some entries are not running any more.
C17_ShutdownIdempotent ==
    [][last'.op \in {"stopAllServers", "destructor"} =>
          /\ m_serverProcesses' = << >>
          /\ (last.op = "stopAllServers" /\ last' # last) =>
                /\ CallsIn(last'.trace, {"terminate", "closeSession"}) = {}
                /\ sessions' = sessions
                /\ \A process \in DOMAIN procs :
                      procs'[process].terminated = procs[process].terminated]_vars

C17_Witness ==
    /\ last.op = "stopAllServers"
    /\ Cardinality(DOMAIN last.pre.serverProcesses) = 2
    /\ \E sessionPath \in DOMAIN last.pre.serverProcesses :
          ~last.pre.procs[last.pre.serverProcesses[sessionPath]].running
    /\ m_serverProcesses = << >>
    /\ pc = "eventloop"

\* --------------------------------------------------------------------- C20
\* a property query of the session failed
QueryFailed(in) == ~in.Display.valid \/ ~in.Leader.valid

\* C20: a failed property query is absorbed and leaves no partial state: when
\* the Display query fails the display counts as empty, when the Leader query
\* fails the leader pid is -1 and the resolved environment is empty; in both
\* cases no worker is started, SessionRegistry.open is not called and the map
\* is unchanged.
C20_FailedQueryAbsorbed ==
    /\ last.op = "startServer" =>
          LET in == last.ins[last.path]
          IN  /\ ~in.Display.valid => getSessionDisplay(in.Display) = ""
              /\ ~in.Leader.valid =>
                    /\ getSessionLeaderPid(in.Leader) = -1
                    /\ getSessionEnvironment(getSessionLeaderPid(in.Leader), in.table)
                          = EmptyEnvironment
              /\ QueryFailed(in) =>
                    /\ Unchanged
                    /\ Calls("openSession") = {}
                    /\ Calls("start") = {}
    /\ last.op = "run" =>
          \A sessionPath \in DOMAIN last.ins :
             QueryFailed(last.ins[sessionPath]) =>
                /\ sessionPath \notin DOMAIN m_serverProcesses
                /\ \A i \in DOMAIN last.trace :
                      last.trace[i].path = sessionPath
                         => last.trace[i] = CallEvent(sessionPath)

C20_Witness ==
    /\ last.op = "startServer"
    /\ m_multiSession
    /\ last.ins[last.path].Display.valid
    /\ ~last.ins[last.path].Leader.valid
    /\ DOMAIN last.pre.serverProcesses # {}

\* --------------------------------------------------------------------- C18
\* the text of a raw entry before and after its first '='
HasEq(raw) == \E p \in DOMAIN raw : raw[p] = "="

FirstEq(raw) == CHOOSE p \in DOMAIN raw : raw[p] = "=" /\ \A q \in 1..(p - 1) : raw[q] # "="

EntryKey(raw) == IF HasEq(raw) THEN SubSeq(raw, 1, FirstEq(raw) - 1) ELSE raw

EntryValue(raw) == IF HasEq(raw) THEN SubSeq(raw, FirstEq(raw) + 1, Len(raw)) ELSE << >>

\* the root set after i entries of the table were scanned
RootSet(table, leaderPid) ==
    LET roots[i \in 0..Len(table)] ==
           IF i = 0 THEN {leaderPid}
           ELSE IF table[i].ppid \in roots[i - 1] /\ ~table[i].environ.null
                THEN roots[i - 1] \cup {table[i].tid}
                ELSE roots[i - 1]
    IN  roots

\* the entries that contribute in one forward pass
Contributing(table, leaderPid) ==
    {i \in DOMAIN table :
        table[i].ppid \in RootSet(table, leaderPid)[i - 1] /\ ~table[i].environ.null}

\* the reference: every variable of a contributing entry, the last write
\* in scan order winning
Reference(table, leaderPid) ==
    LET writes == UNION {{<<i, j>> : j \in DOMAIN table[i].environ.vars} :
                           i \in Contributing(table, leaderPid)}
        raw(w) == table[w[1]].environ.vars[w[2]]
        later(u, w) == u[1] > w[1] \/ (u[1] = w[1] /\ u[2] > w[2])
    IN  [k \in {EntryKey(raw(w)) : w \in writes} |->
           LET w == CHOOSE w \in writes :
                       /\ EntryKey(raw(w)) = k
                       /\ \A u \in writes : EntryKey(raw(u)) = k => ~later(u, w)
           IN  EntryValue(raw(w))]

A1B2 == [k \in {<<"A">>, <<"B">>} |-> IF k = <<"A">> THEN <<"1">> ELSE <<"2">>]

GrandchildFirst ==
    << [tid |-> 11, ppid |-> 10, environ |-> Environ(<< <<"A", "=", "2">>, <<"B", "=", "2">> >>)],
       [tid |-> 10, ppid |-> 500, environ |-> Environ(<< <<"A", "=", "1">> >>)] >>

\* C18: getSessionEnvironment(leaderPid) equals the one-forward-pass
\* reference: the root set starts as {leaderPid}; an entry contributes, and
\* its id joins the root set, exactly when its parent id is in the root set
\* when it is scanned and its environment block is not null; duplicate keys
\* are last-write-wins in scan order.  The table (10,P,{A:1}), (11,10,{B:2}),
\* (12,999,{C:3}) gives {A:1,B:2}, and a grandchild scanned before its parent
\* is left out.
C18_ForwardPassReference ==
    (arg.kind = "getSessionEnvironment" /\ result.done) =>
       /\ result.val = Reference(arg.table, arg.sessionLeaderPid)
       /\ (arg.table = TableTree /\ arg.sessionLeaderPid = 500) => result.val = A1B2
       /\ (arg.table = GrandchildFirst /\ arg.sessionLeaderPid = 500) =>
             result.val = [k \in {<<"A">>} |-> <<"1">>]

C18_Witness ==
    /\ arg.kind = "getSessionEnvironment"
    /\ result.done
    /\ Len(arg.table) = 3
    /\ Cardinality(Contributing(arg.table, arg.sessionLeaderPid)) = 2
    /\ \E i \in DOMAIN arg.table :
          /\ arg.table[i].ppid # arg.sessionLeaderPid
          /\ i \in Contributing(arg.table, arg.sessionLeaderPid)
    /\ result.val = [k \in {<<"A">>, <<"B">>} |-> <<"2">>]

\* --------------------------------------------------------------------- C19
\* C19: a raw environment entry is split at its first '=' only: the key is
\* the text before the first '=', the value all the text after it, further
\* '=' included ("FOO=bar=baz" gives FOO and bar=baz); the entry k + "=" + v,
\* k without '=', parses back to exactly (k, v).
C19_SplitAtFirstEq ==
    (arg.kind = "environ" /\ result.done) =>
       /\ result.val = [k \in {EntryKey(arg.raw)} |-> EntryValue(arg.raw)]
       /\ \A k \in SeqsUpTo(KeyChars, MaxKey), v \in SeqsUpTo(ValueChars, MaxValue) :
             arg.raw = k \o <<"=">> \o v => result.val = [name \in {k} |-> v]
       /\ arg.raw = FooBarBaz =>
             result.val = [k \in {<<"F", "O", "O">>} |-> <<"b", "a", "r", "=", "b", "a", "z">>]

C19_Witness ==
    /\ arg.kind = "environ"
    /\ result.done
    /\ Cardinality({p \in DOMAIN arg.raw : arg.raw[p] = "="}) >= 2
    /\ \E k \in DOMAIN result.val : k # << >> /\ HasEq(result.val[k])

====
